---- MODULE Spec2Model ----
(***************************************************************************)
(* A model of the EditFeatureForm component                                *)
(* (src/ui/src/components/EditFeatureForm.tsx): one edit session over one  *)
(* Feature snapshot.                                                       *)
(*                                                                         *)
(* Text is a sequence of one-character strings, so that trim, parseInt,    *)
(* String and JSON.stringify are computed character by character.  A       *)
(* nullable value (the `error` state, whose type is string | null) is a    *)
(* sequence of length at most one: <<>> is null, <<m>> is the string m.    *)
(* A JavaScript number is a record [nan, val].                             *)
(***************************************************************************)
EXTENDS Integers, Sequences, FiniteSets, TLC

(***************************************************************************)
(* Bounds of the model.                                                    *)
(***************************************************************************)
\* handleAddStep is offered while stepCounter is below this bound
MaxStepCounter == 3

\* mutateAsync is offered while fewer than this many calls are in flight
MaxInFlight == 2

\* the snapshots of StepsSpec hold at most this many original steps
MaxOriginalSteps == 2

(***************************************************************************)
(* JavaScript text and number primitives used by the component.            *)
(***************************************************************************)
Digits == <<"0", "1", "2", "3", "4", "5", "6", "7", "8", "9">>

IsDigit(c) == \E i \in 1..10 : Digits[i] = c

DigitValue(c) == (CHOOSE i \in 1..10 : Digits[i] = c) - 1

IsWhitespace(c) == c = " "

RECURSIVE trimStart(_)
trimStart(s) ==
    IF Len(s) > 0 /\ IsWhitespace(Head(s)) THEN trimStart(Tail(s)) ELSE s

RECURSIVE trimEnd(_)
trimEnd(s) ==
    IF Len(s) > 0 /\ IsWhitespace(s[Len(s)])
    THEN trimEnd(SubSeq(s, 1, Len(s) - 1))
    ELSE s

\* String.prototype.trim
trim(s) == trimEnd(trimStart(s))

\* a JavaScript number: NaN, or the integer val
NaN == [nan |-> TRUE, val |-> 0]

Num(n) == [nan |-> FALSE, val |-> n]

\* x !== y on numbers: NaN is unequal to everything, itself included
NumStrictNotEqual(x, y) == x.nan \/ y.nan \/ x.val # y.val

RECURSIVE parseDigits(_, _)
parseDigits(s, acc) ==
    IF Len(s) > 0 /\ IsDigit(Head(s))
    THEN parseDigits(Tail(s), acc * 10 + DigitValue(Head(s)))
    ELSE acc

\* parseInt(str, 10): leading whitespace skipped, an optional sign, then the
\* longest run of decimal digits; NaN when there is no digit
parseInt(str) ==
    LET s == trimStart(str)
        signed == Len(s) > 0 /\ Head(s) \in {"+", "-"}
        neg == Len(s) > 0 /\ Head(s) = "-"
        body == IF signed THEN Tail(s) ELSE s
    IN  IF Len(body) = 0 \/ ~IsDigit(Head(body))
        THEN NaN
        ELSE Num(IF neg THEN 0 - parseDigits(body, 0) ELSE parseDigits(body, 0))

RECURSIVE digitsOf(_)
digitsOf(n) ==
    IF n < 10
    THEN <<Digits[n + 1]>>
    ELSE digitsOf(n \div 10) \o <<Digits[(n % 10) + 1]>>

\* String(n) for an integer n
String(n) == IF n < 0 THEN <<"-">> \o digitsOf(0 - n) ELSE digitsOf(n)

RECURSIVE jsonEscape(_)
jsonEscape(s) ==
    IF Len(s) = 0 THEN <<>>
    ELSE (IF Head(s) \in {"\"", "\\"} THEN <<"\\", Head(s)>> ELSE <<Head(s)>>)
         \o jsonEscape(Tail(s))

jsonQuote(s) == <<"\"">> \o jsonEscape(s) \o <<"\"">>

RECURSIVE jsonJoin(_)
jsonJoin(arr) ==
    IF Len(arr) = 0 THEN <<>>
    ELSE IF Len(arr) = 1 THEN jsonQuote(Head(arr))
    ELSE jsonQuote(Head(arr)) \o <<",">> \o jsonJoin(Tail(arr))

\* JSON.stringify of an array of strings
JSONstringify(arr) ==
    CHOOSE str \in {<<"[">> \o jsonJoin(a) \o <<"]">> : a \in {arr}} : TRUE

RECURSIVE SeqFilterNonEmpty(_)
SeqFilterNonEmpty(arr) ==
    IF Len(arr) = 0 THEN <<>>
    ELSE (IF Len(Head(arr)) > 0 THEN <<Head(arr)>> ELSE <<>>)
         \o SeqFilterNonEmpty(Tail(arr))

(***************************************************************************)
(* Inputs: the Feature snapshots a session may be opened on, the texts the *)
(* user may type and the ways the external mutation may fail.              *)
(***************************************************************************)
Features ==
    { [id |-> 7, category |-> <<"a">>, name |-> <<"n">>, description |-> <<"d">>,
       priority |-> 2, steps |-> <<>>],
      [id |-> 8, category |-> <<"a">>, name |-> <<"n">>, description |-> <<"d">>,
       priority |-> 12, steps |-> << <<"a">>, <<"b">> >>],
      [id |-> 9, category |-> <<"a", " ">>, name |-> <<"n">>, description |-> <<"d">>,
       priority |-> 2, steps |-> << <<" ", "b">> >>] }

CategoryInputs == {<<"b", " ">>}

NameInputs == {<<" ">>}

DescriptionInputs == {<<"d", " ">>}

PriorityInputs == {<<>>, <<"2", ".", "5">>, <<".", "5", "e", "1">>}

StepInputs == {<<"b">>, <<"a", " ">>}

\* what the mutation may reject with: an Error carrying a message, or a value
\* that is no Error
Failures ==
    { [isError |-> TRUE, message |-> "network error"],
      [isError |-> FALSE, message |-> ""] }

(***************************************************************************)
(* State.                                                                  *)
(***************************************************************************)
VARIABLES
    feature,        \* props.feature, the original snapshot
    category,       \* useState(feature.category)
    name,           \* useState(feature.name)
    description,    \* useState(feature.description)
    priority,       \* useState(String(feature.priority)), raw text
    steps,          \* useState<Step[]>, entries [id, value]
    error,          \* useState<string | null>
    stepCounter,    \* useState(feature.steps.length || 1)
    isPending,      \* updateFeature.isPending
    inFlight,       \* number of mutateAsync calls not yet settled
    onSavedCalls,   \* times props.onSaved was called
    onCloseCalls,   \* times props.onClose was called
    lastEvent,      \* history: the last event, with mutateAsync's argument or the failure
    usedIds,        \* history: every Step id assigned so far
    succeeded       \* history: number of mutations that settled successfully

vars ==
    <<feature, category, name, description, priority, steps, error, stepCounter,
      isPending, inFlight, onSavedCalls, onCloseCalls, lastEvent, usedIds, succeeded>>

\* the edit buffer proper
buffer == <<category, name, description, priority, steps>>

formId == <<":", "r", "0", ":">>

\* `${formId}-step-${i}`
StepId(i) == formId \o <<"-", "s", "t", "e", "p", "-">> \o String(i)

\* the initializer with the blank row also for a single original step
initialSteps_OffByOne(f) ==
    IF Len(f.steps) > 1
    THEN [i \in 1..Len(f.steps) |-> [id |-> StepId(i - 1), value |-> f.steps[i]]]
    ELSE << [id |-> StepId(0), value |-> <<>>] >>

\* the initializer of the steps state
initialSteps(f) ==
    IF Len(f.steps) > 0
    THEN [i \in 1..Len(f.steps) |-> [id |-> StepId(i - 1), value |-> f.steps[i]]]
    ELSE << [id |-> StepId(0), value |-> <<>>] >>

\* feature.steps.length || 1
initialStepCounter(f) == IF Len(f.steps) # 0 THEN Len(f.steps) ELSE 1

Event(type) == [type |-> type, args |-> <<>>]

Init ==
    /\ feature \in Features
    /\ category = feature.category
    /\ name = feature.name
    /\ description = feature.description
    /\ priority = String(feature.priority)
    /\ steps = initialSteps(feature)
    /\ error = <<>>
    /\ stepCounter = initialStepCounter(feature)
    /\ isPending = FALSE
    /\ inFlight = 0
    /\ onSavedCalls = 0
    /\ onCloseCalls = 0
    /\ lastEvent = Event("init")
    /\ usedIds = {steps[i].id : i \in 1..Len(steps)}
    /\ succeeded = 0

(***************************************************************************)
(* Values derived on every render.                                         *)
(***************************************************************************)
\* the check on the texts as typed, untrimmed
isValid_NoTrim ==
    /\ Len(category) > 0
    /\ Len(name) > 0
    /\ Len(description) > 0

\* the check asking also for a priority text that parses
isValid_RequiresPriority ==
    /\ Len(trim(category)) > 0
    /\ Len(trim(name)) > 0
    /\ Len(trim(description)) > 0
    /\ ~parseInt(priority).nan

\* category.trim() && name.trim() && description.trim(), as a truth value
isValid ==
    /\ Len(trim(category)) > 0
    /\ Len(trim(name)) > 0
    /\ Len(trim(description)) > 0

\* steps.map(s => s.value.trim()).filter(s => s)
currentSteps == SeqFilterNonEmpty([i \in 1..Len(steps) |-> trim(steps[i].value)])

\* the comparison without the priority
hasChanges_NoPriority ==
    \/ trim(category) # feature.category
    \/ trim(name) # feature.name
    \/ trim(description) # feature.description
    \/ JSONstringify(currentSteps) # JSONstringify(feature.steps)

\* the comparison on the step values as typed, blank rows included
hasChanges_Unfiltered ==
    \/ trim(category) # feature.category
    \/ trim(name) # feature.name
    \/ trim(description) # feature.description
    \/ NumStrictNotEqual(parseInt(priority), Num(feature.priority))
    \/ JSONstringify([i \in 1..Len(steps) |-> steps[i].value]) # JSONstringify(feature.steps)

hasChanges ==
    \/ trim(category) # feature.category
    \/ trim(name) # feature.name
    \/ trim(description) # feature.description
    \/ NumStrictNotEqual(parseInt(priority), Num(feature.priority))
    \/ JSONstringify(currentSteps) # JSONstringify(feature.steps)

\* the disabled attribute without the dirty check
submitDisabled_NoDirtyCheck == ~isValid \/ isPending

\* the disabled attribute without the pending check
submitDisabled_NoPendingCheck == ~isValid \/ ~hasChanges

\* the disabled attribute also set while an error message is showing
submitDisabled_BlockedByError ==
    ~isValid \/ ~hasChanges \/ isPending \/ Len(error) > 0

\* the submit button's disabled attribute
submitDisabled == ~isValid \/ ~hasChanges \/ isPending

\* the remove button rendered on every row, whatever the number of rows
removeButtonRendered_Always == TRUE

\* the remove button of a row is rendered
removeButtonRendered == Len(steps) > 1

\* the error banner, with its dismiss button, is rendered: error && (...)
errorBannerRendered == Len(error) > 0 /\ error[1] # ""

\* inputs and step buttons that are disabled while the mutation is pending
inputsEnabled_NotWhilePending == ~isPending

\* the inputs, the Add Step button and the remove buttons carry no disabled
\* attribute
inputsEnabled == TRUE

\* the enclosing collaborator ends the session when it is told onClose or onSaved
sessionOpen == onCloseCalls = 0 /\ onSavedCalls = 0

(***************************************************************************)
(* Handlers.  Each is the whole effect of the handler on the component's   *)
(* state; the actions below add the condition under which the rendered     *)
(* form delivers the event, and the history.                               *)
(***************************************************************************)
\* the new entry's id taken from the list's length instead of the counter
handleAddStep_IdFromLength ==
    /\ steps' = Append(steps, [id |-> StepId(Len(steps)), value |-> <<>>])
    /\ stepCounter' = stepCounter + 1

handleAddStep ==
    /\ steps' = Append(steps, [id |-> StepId(stepCounter), value |-> <<>>])
    /\ stepCounter' = stepCounter + 1

\* a removal that drops the last row whatever the id
handleRemoveStep_Pop(id) ==
    steps' = SubSeq(steps, 1, Len(steps) - 1)

\* an update that appends a row when no row has the id
handleStepChange_Upsert(id, value) ==
    steps' = IF \E i \in 1..Len(steps) : steps[i].id = id
             THEN [i \in 1..Len(steps) |->
                      IF steps[i].id = id THEN [steps[i] EXCEPT !.value = value]
                      ELSE steps[i]]
             ELSE Append(steps, [id |-> id, value |-> value])

handleRemoveStep(id) ==
    steps' = SelectSeq(steps, LAMBDA step : step.id # id)

handleStepChange(id, value) ==
    steps' = [i \in 1..Len(steps) |->
                 IF steps[i].id = id THEN [steps[i] EXCEPT !.value = value]
                 ELSE steps[i]]

\* steps.map(s => s.value.trim()).filter(s => s.length > 0)
filteredSteps == SeqFilterNonEmpty([i \in 1..Len(steps) |-> trim(steps[i].value)])

\* the argument with the category as typed, untrimmed
mutationArgs_RawCategory ==
    [featureId |-> feature.id,
     update |-> [category |-> category,
                 name |-> trim(name),
                 description |-> trim(description),
                 steps |-> filteredSteps,
                 priority |-> parseInt(priority)]]

\* the argument handleSubmit passes to mutateAsync
mutationArgs ==
    [featureId |-> feature.id,
     update |-> [category |-> trim(category),
                 name |-> trim(name),
                 description |-> trim(description),
                 steps |-> filteredSteps,
                 priority |-> parseInt(priority)]]

\* updateFeature.mutateAsync: one more call in flight, the mutation pending
mutateAsync ==
    /\ inFlight' = inFlight + 1
    /\ isPending' = TRUE

\* the call settles, either way: it is no longer in flight nor pending
mutationSettled ==
    /\ inFlight' = inFlight - 1
    /\ isPending' = FALSE

\* handleSubmit without the setError(null) on entry
handleSubmit_KeepsError ==
    /\ UNCHANGED error
    /\ mutateAsync

\* handleSubmit up to its await
handleSubmit ==
    /\ error' = <<>>
    /\ mutateAsync

\* handleSubmit after the await, the promise fulfilled: onSaved()
handleSubmitResolved ==
    /\ onSavedCalls' = onSavedCalls + 1
    /\ UNCHANGED error

\* the catch block also notifying onSaved
handleSubmitRejected_AlsoSaved(err) ==
    /\ error' = << IF err.isError THEN err.message ELSE "Failed to update feature" >>
    /\ onSavedCalls' = onSavedCalls + 1

\* the catch block ignoring the failure's message
handleSubmitRejected_AlwaysFallback(err) ==
    /\ error' = << "Failed to update feature" >>
    /\ UNCHANGED onSavedCalls

\* handleSubmit's catch block
handleSubmitRejected(err) ==
    /\ error' = << IF err.isError THEN err.message ELSE "Failed to update feature" >>
    /\ UNCHANGED onSavedCalls

\* a dismiss button that leaves the message where it is
dismissError_KeepsError == error' = error

\* the banner's dismiss button: setError(null)
dismissError == error' = <<>>

(***************************************************************************)
(* Actions: the events of a session.                                       *)
(***************************************************************************)
SetCategory(v) ==
    /\ sessionOpen
    /\ inputsEnabled
    /\ category' = v
    /\ lastEvent' = Event("edit")
    /\ UNCHANGED <<feature, name, description, priority, steps, error, stepCounter,
                   isPending, inFlight, onSavedCalls, onCloseCalls, usedIds, succeeded>>

SetName(v) ==
    /\ sessionOpen
    /\ inputsEnabled
    /\ name' = v
    /\ lastEvent' = Event("edit")
    /\ UNCHANGED <<feature, category, description, priority, steps, error, stepCounter,
                   isPending, inFlight, onSavedCalls, onCloseCalls, usedIds, succeeded>>

SetDescription(v) ==
    /\ sessionOpen
    /\ inputsEnabled
    /\ description' = v
    /\ lastEvent' = Event("edit")
    /\ UNCHANGED <<feature, category, name, priority, steps, error, stepCounter,
                   isPending, inFlight, onSavedCalls, onCloseCalls, usedIds, succeeded>>

SetPriority(v) ==
    /\ sessionOpen
    /\ inputsEnabled
    /\ priority' = v
    /\ lastEvent' = Event("edit")
    /\ UNCHANGED <<feature, category, name, description, steps, error, stepCounter,
                   isPending, inFlight, onSavedCalls, onCloseCalls, usedIds, succeeded>>

AddStep ==
    /\ sessionOpen
    /\ inputsEnabled
    /\ stepCounter < MaxStepCounter
    /\ handleAddStep
    /\ usedIds' = usedIds \cup {steps'[Len(steps')].id}
    /\ lastEvent' = Event("edit")
    /\ UNCHANGED <<feature, category, name, description, priority, error,
                   isPending, inFlight, onSavedCalls, onCloseCalls, succeeded>>

\* a click on the remove button of the row showing entry i
RemoveStep(i) ==
    /\ sessionOpen
    /\ inputsEnabled
    /\ removeButtonRendered
    /\ handleRemoveStep(steps[i].id)
    /\ lastEvent' = Event("edit")
    /\ UNCHANGED <<feature, category, name, description, priority, error, stepCounter,
                   isPending, inFlight, onSavedCalls, onCloseCalls, usedIds, succeeded>>

\* the user wants the only row gone: there is no button to click
RemoveStepUnavailable ==
    /\ sessionOpen
    /\ ~removeButtonRendered
    /\ lastEvent' = Event("removeStepUnavailable")
    /\ UNCHANGED <<feature, category, name, description, priority, steps, error,
                   stepCounter, isPending, inFlight, onSavedCalls, onCloseCalls,
                   usedIds, succeeded>>

\* typing in the input of the row showing entry i
StepChange(i, v) ==
    /\ sessionOpen
    /\ inputsEnabled
    /\ handleStepChange(steps[i].id, v)
    /\ lastEvent' = Event("edit")
    /\ UNCHANGED <<feature, category, name, description, priority, error, stepCounter,
                   isPending, inFlight, onSavedCalls, onCloseCalls, usedIds, succeeded>>

\* the form's submit event, which the submit button delivers when enabled
Submit ==
    /\ sessionOpen
    /\ ~submitDisabled
    /\ inFlight < MaxInFlight
    /\ handleSubmit
    /\ lastEvent' = [type |-> "submit", args |-> <<mutationArgs>>]
    /\ UNCHANGED <<feature, category, name, description, priority, steps, stepCounter,
                   onSavedCalls, onCloseCalls, usedIds, succeeded>>

\* a submit request while the submit button is disabled: no event is delivered
SubmitWhileDisabled ==
    /\ sessionOpen
    /\ submitDisabled
    /\ lastEvent' = Event("submitWhileDisabled")
    /\ UNCHANGED <<feature, category, name, description, priority, steps, error,
                   stepCounter, isPending, inFlight, onSavedCalls, onCloseCalls,
                   usedIds, succeeded>>

\* the in-flight mutation succeeds
MutationSucceeds ==
    /\ inFlight > 0
    /\ mutationSettled
    /\ handleSubmitResolved
    /\ succeeded' = succeeded + 1
    /\ lastEvent' = Event("mutationSucceeds")
    /\ UNCHANGED <<feature, category, name, description, priority, steps, stepCounter,
                   onCloseCalls, usedIds>>

\* the in-flight mutation fails with err
MutationFails(err) ==
    /\ inFlight > 0
    /\ mutationSettled
    /\ handleSubmitRejected(err)
    /\ lastEvent' = [type |-> "mutationFails", args |-> <<err>>]
    /\ UNCHANGED <<feature, category, name, description, priority, steps, stepCounter,
                   onCloseCalls, usedIds, succeeded>>

DismissError ==
    /\ sessionOpen
    /\ errorBannerRendered
    /\ dismissError
    /\ lastEvent' = Event("dismissError")
    /\ UNCHANGED <<feature, category, name, description, priority, steps, stepCounter,
                   isPending, inFlight, onSavedCalls, onCloseCalls, usedIds, succeeded>>

\* the Cancel button, the header's close button or the backdrop: onClose()
Cancel ==
    /\ sessionOpen
    /\ onCloseCalls' = onCloseCalls + 1
    /\ lastEvent' = Event("cancel")
    /\ UNCHANGED <<feature, category, name, description, priority, steps, error,
                   stepCounter, isPending, inFlight, onSavedCalls, usedIds, succeeded>>

Next ==
    \/ \E v \in CategoryInputs : SetCategory(v)
    \/ \E v \in NameInputs : SetName(v)
    \/ \E v \in DescriptionInputs : SetDescription(v)
    \/ \E v \in PriorityInputs : SetPriority(v)
    \/ AddStep
    \/ \E i \in 1..Len(steps) : RemoveStep(i)
    \/ RemoveStepUnavailable
    \/ \E i \in 1..Len(steps), v \in StepInputs : StepChange(i, v)
    \/ Submit
    \/ SubmitWhileDisabled
    \/ MutationSucceeds
    \/ \E err \in Failures : MutationFails(err)
    \/ DismissError
    \/ Cancel

Spec == Init /\ [][Next]_vars

(***************************************************************************)
(* The step list on its own: sessions opened on every original step list   *)
(* up to MaxOriginalSteps, the handlers called with any id, also one that  *)
(* no entry carries.                                                       *)
(***************************************************************************)
OriginalStepTexts == {<<"a">>, <<"b">>, <<" ", "b">>}

StepFeatures ==
    { [id |-> 11, category |-> <<"a">>, name |-> <<"n">>, description |-> <<"d">>,
       priority |-> 2, steps |-> s] :
        s \in UNION {[1..n -> OriginalStepTexts] : n \in 0..MaxOriginalSteps} }

WideStepInputs == {<<" ">>, <<"b">>}

\* every id the session can mint, and one it never mints
AnyStepIds == {StepId(k) : k \in 0..MaxStepCounter}

\* the state after construction on a snapshot of fs
InitFrom(fs) ==
    /\ feature \in fs
    /\ category = feature.category
    /\ name = feature.name
    /\ description = feature.description
    /\ priority = String(feature.priority)
    /\ steps = initialSteps(feature)
    /\ error = <<>>
    /\ stepCounter = initialStepCounter(feature)
    /\ isPending = FALSE
    /\ inFlight = 0
    /\ onSavedCalls = 0
    /\ onCloseCalls = 0
    /\ lastEvent = Event("init")
    /\ usedIds = {steps[i].id : i \in 1..Len(steps)}
    /\ succeeded = 0

\* handleStepChange called with any id
StepChangeById(id, v) ==
    /\ sessionOpen
    /\ handleStepChange(id, v)
    /\ lastEvent' = Event(IF \E i \in 1..Len(steps) : steps[i].id = id
                          THEN "edit" ELSE "stepChangeUnknownId")
    /\ UNCHANGED <<feature, category, name, description, priority, error, stepCounter,
                   isPending, inFlight, onSavedCalls, onCloseCalls, usedIds, succeeded>>

\* handleRemoveStep called with any id, while the rows show remove buttons
RemoveStepById(id) ==
    /\ sessionOpen
    /\ removeButtonRendered
    /\ handleRemoveStep(id)
    /\ lastEvent' = Event(IF \E i \in 1..Len(steps) : steps[i].id = id
                          THEN "removeStep" ELSE "removeStepUnknownId")
    /\ UNCHANGED <<feature, category, name, description, priority, error, stepCounter,
                   isPending, inFlight, onSavedCalls, onCloseCalls, usedIds, succeeded>>

NextSteps ==
    \/ AddStep
    \/ \E id \in AnyStepIds, v \in WideStepInputs : StepChangeById(id, v)
    \/ \E id \in AnyStepIds : RemoveStepById(id)

StepsSpec == InitFrom(StepFeatures) /\ [][NextSteps]_vars

(***************************************************************************)
(* The scalar fields on their own, over more texts.                        *)
(***************************************************************************)
WideTexts == {<<>>, <<" ">>, <<"a">>, <<" ", "b", " ">>}

WidePriorityInputs == {<<>>, <<"2">>, <<" ", "1", "2">>, <<"-", "2">>, <<"2", ".", "5">>}

NextScalars ==
    \/ \E v \in WideTexts : SetCategory(v)
    \/ \E v \in WideTexts : SetName(v)
    \/ \E v \in WideTexts : SetDescription(v)
    \/ \E v \in WidePriorityInputs : SetPriority(v)

ScalarSpec == Init /\ [][NextScalars]_vars

(***************************************************************************)
(* The submit coordinator on its own, the mutation settling eventually.    *)
(***************************************************************************)
MutationSettles == MutationSucceeds \/ \E err \in Failures : MutationFails(err)

NextCoordinator ==
    \/ \E v \in CategoryInputs : SetCategory(v)
    \/ \E v \in NameInputs : SetName(v)
    \/ \E v \in PriorityInputs : SetPriority(v)
    \/ Submit
    \/ SubmitWhileDisabled
    \/ MutationSucceeds
    \/ \E err \in Failures : MutationFails(err)
    \/ DismissError
    \/ Cancel

LiveSpec == Init /\ [][NextCoordinator]_vars /\ WF_vars(MutationSettles)

(***************************************************************************)
(* Properties.                                                             *)
(***************************************************************************)
\* the gate of section 4.2, on the values the render derived
gateOpen == isValid /\ hasChanges /\ ~isPending

\* the state of the session a submit request could touch
sessionState ==
    <<buffer, error, stepCounter, isPending, inFlight, onSavedCalls, onCloseCalls>>

\* C1: a step invokes the mutation only from a state in which isValid and
\* hasChanges are true and submitting is false; a submit request made while
\* the gate fails invokes no mutation, leaves the session state as it was and
\* sets no errorMessage.
C1_SubmitGate ==
    [][ /\ (inFlight' > inFlight => gateOpen)
        /\ (lastEvent'.type \in {"submit", "submitWhileDisabled"} /\ ~gateOpen
              => /\ inFlight' = inFlight
                 /\ sessionState' = sessionState) ]_vars

\* a submit request was made, and ignored, on a valid and unchanged buffer while
\* an earlier failure's message was showing
C1_Witness ==
    /\ lastEvent.type = "submitWhileDisabled"
    /\ isValid /\ ~hasChanges /\ ~isPending
    /\ Len(error) > 0

\* C2: at most one mutation call is in flight, whatever the interleaving of
\* user actions with the settling of the pending mutation.
C2_AtMostOneInFlight == inFlight <= 1 /\ (isPending => inFlight = 1)

\* a submit request was made on a valid, changed buffer while a mutation was in
\* flight, and started no second one
C2_Witness ==
    /\ lastEvent.type = "submitWhileDisabled"
    /\ isValid /\ hasChanges
    /\ inFlight = 1

\* C3: the step list is never empty: it starts with one entry per original
\* step, or one empty entry when there is none, stays non-empty under addStep,
\* removeStep and updateStep, and a removal wanted when one entry remains
\* leaves the list as it was.
C3_StepListNeverEmpty ==
    /\ [](Len(steps) >= 1)
    /\ [](lastEvent.type = "init" =>
            IF Len(feature.steps) = 0
            THEN Len(steps) = 1 /\ steps[1].value = <<>>
            ELSE /\ Len(steps) = Len(feature.steps)
                 /\ \A i \in 1..Len(steps) : steps[i].value = feature.steps[i])
    /\ [][Len(steps) = 1 => Len(steps') >= 1]_vars
    /\ [][lastEvent'.type = "removeStepUnavailable" => steps' = steps]_vars

\* rows were added and removed until one was left, and its removal was wanted
C3_Witness ==
    /\ lastEvent.type = "removeStepUnavailable"
    /\ Len(steps) = 1
    /\ Cardinality(usedIds) > 1

\* the ids of the entries of a step list
idsOf(s) == {s[i].id : i \in 1..Len(s)}

\* C4: the entries of the step list have pairwise distinct localIds, and the
\* localId an addStep mints was never assigned before in the session, not even
\* to an entry since removed; the counter starts at the original step count
\* (1 when there is none) and never decreases.
C4_LocalIdsUnique ==
    /\ [](\A i, j \in 1..Len(steps) : steps[i].id = steps[j].id => i = j)
    /\ [](idsOf(steps) \subseteq usedIds)
    /\ [](lastEvent.type = "init" =>
            stepCounter = (IF Len(feature.steps) = 0 THEN 1 ELSE Len(feature.steps)))
    /\ [][ /\ stepCounter' >= stepCounter
           /\ (Len(steps') > Len(steps) =>
                 /\ steps'[Len(steps')].id \notin usedIds
                 /\ stepCounter' > stepCounter) ]_vars

\* an entry was removed and the list holds an entry minted after construction
C4_Witness ==
    /\ Cardinality(usedIds) > Len(steps)
    /\ Len(steps) >= 2
    /\ steps[Len(steps)].id = StepId(stepCounter - 1)
    /\ stepCounter > initialStepCounter(feature)

\* C5: cancel is received only in states other than Submitting, and once
\* onClose has been called no mutation of the session is invoked or succeeds
\* and onSaved is not called.
C5_CancelOnlyOutsideSubmitting ==
    [][ /\ (onCloseCalls' > onCloseCalls => ~isPending /\ inFlight = 0)
        /\ (onCloseCalls > 0 =>
              /\ inFlight' <= inFlight
              /\ succeeded' = succeeded
              /\ onSavedCalls' = onSavedCalls) ]_vars

\* C6: onSaved is called once for the session's successful mutation, in the
\* step in which that mutation succeeds, and never otherwise; after a success
\* no mutation is invoked and onSaved is not called again.
C6_SavedOncePerSuccess ==
    /\ [](onSavedCalls = succeeded /\ onSavedCalls <= 1)
    /\ [][onSavedCalls' # onSavedCalls =>
            onSavedCalls' = onSavedCalls + 1 /\ succeeded' = succeeded + 1]_vars
    /\ [][succeeded > 0 => inFlight' <= inFlight /\ onSavedCalls' = onSavedCalls]_vars

\* the mutation has succeeded and onSaved has been called
C6_Witness ==
    /\ lastEvent.type = "mutationSucceeds"
    /\ succeeded = 1
    /\ onSavedCalls = 1

\* C7: when the in-flight mutation fails, errorMessage becomes the failure's
\* message when the failure is an Error carrying one and the generic text
\* otherwise, submitting becomes false, the buffer and the id counter are
\* unchanged, and neither onSaved nor onClose is called.
C7_FailureKeepsBuffer ==
    [][ lastEvent'.type = "mutationFails" /\ inFlight' < inFlight =>
          LET err == lastEvent'.args[1]
          IN  /\ error' = << IF err.isError THEN err.message
                             ELSE "Failed to update feature" >>
              /\ Len(error') = 1
              /\ isPending' = FALSE
              /\ buffer' = buffer
              /\ stepCounter' = stepCounter
              /\ onSavedCalls' = onSavedCalls
              /\ onCloseCalls' = onCloseCalls ]_vars

\* the mutation of a changed buffer has failed with "network error"
C7_Witness ==
    /\ lastEvent.type = "mutationFails"
    /\ lastEvent.args[1].isError
    /\ error = <<"network error">>
    /\ hasChanges
    /\ ~isPending

\* the step is a failure of the in-flight mutation
failureStep == lastEvent'.type = "mutationFails" /\ inFlight' < inFlight

\* C8, as claimed: errorMessage is set only by a mutation failure and, once
\* set, is changed only by a dismissal, by a resubmission succeeding or by a
\* further failure replacing it.
C8_ClearedOnlyByDismissOrSuccess ==
    [][ /\ (error' # error /\ Len(error') > 0 => failureStep)
        /\ (Len(error) > 0 /\ error' # error =>
              \/ lastEvent'.type \in {"dismissError", "mutationSucceeds"}
              \/ failureStep) ]_vars

\* C8, amended: errorMessage is set only by a mutation failure and, once set,
\* is changed only by a dismissal, by the start of a submission, which always
\* clears it, or by a further failure replacing it; the mutation succeeding
\* leaves it as it is.
C8_ClearedByDismissOrSubmit ==
    [][ /\ (error' # error /\ Len(error') > 0 => failureStep)
        /\ (Len(error) > 0 /\ error' # error =>
              \/ lastEvent'.type \in {"dismissError", "submit"}
              \/ failureStep)
        /\ (inFlight' > inFlight => error' = <<>>)
        /\ (succeeded' > succeeded => error' = error) ]_vars

\* a failure's message is still set after an edit of the buffer
C8_Witness ==
    /\ lastEvent.type = "edit"
    /\ Len(error) > 0
    /\ sessionOpen

\* the step sequences differ in length or at some position
seqDiffers(a, b) == Len(a) # Len(b) \/ \E i \in 1..Len(a) : a[i] # b[i]

\* the parsed priority text is not the number n
priorityDiffers(text, n) ==
    LET p == parseInt(text) IN p.nan \/ p.val # n

\* C9: hasChanges is true exactly when one of the five comparisons differs:
\* trimmed category, name, description against the original's, the parsed
\* priority text against the original priority, the normalized steps against
\* the original steps by length and position.
C9_HasChangesIffAxisDiffers ==
    hasChanges <=>
        \/ trim(category) # feature.category
        \/ trim(name) # feature.name
        \/ trim(description) # feature.description
        \/ priorityDiffers(priority, feature.priority)
        \/ seqDiffers(currentSteps, feature.steps)

\* only the steps differ, in one position of a list as long as the original
C9_Witness ==
    /\ hasChanges
    /\ trim(category) = feature.category
    /\ trim(name) = feature.name
    /\ trim(description) = feature.description
    /\ ~priorityDiffers(priority, feature.priority)
    /\ Len(currentSteps) = Len(feature.steps)
    /\ Len(currentSteps) = 2

\* the buffer is the one construction gives
bufferAsConstructed ==
    buffer = <<feature.category, feature.name, feature.description,
               String(feature.priority), initialSteps(feature)>>

\* C10: for every snapshot, a session whose buffer is as constructed, no edit
\* made, has hasChanges false and its submit disabled, so that unchanged
\* data cannot be submitted.
C10_FreshSessionUnchanged ==
    bufferAsConstructed => ~hasChanges /\ submitDisabled

\* the text holds a character that is not whitespace
hasInk(s) == \E i \in 1..Len(s) : ~IsWhitespace(s[i])

\* the text neither starts nor ends with whitespace
isTrimmed(s) == Len(s) = 0 \/ (~IsWhitespace(s[1]) /\ ~IsWhitespace(s[Len(s)]))

\* C11, as claimed: for a non-empty original step sequence without blank
\* entries, the steps as constructed normalize to the original sequence.
C11_RoundTrip ==
    (/\ lastEvent.type = "init"
     /\ Len(feature.steps) > 0
     /\ \A i \in 1..Len(feature.steps) : hasInk(feature.steps[i]))
        => currentSteps = feature.steps /\ filteredSteps = feature.steps

\* C11, amended: for a non-empty original step sequence whose entries are not
\* blank and carry no leading or trailing whitespace, the steps as
\* constructed normalize to the original sequence.
C11_RoundTripOfTrimmed ==
    (/\ lastEvent.type = "init"
     /\ Len(feature.steps) > 0
     /\ \A i \in 1..Len(feature.steps) :
           hasInk(feature.steps[i]) /\ isTrimmed(feature.steps[i]))
        => currentSteps = feature.steps /\ filteredSteps = feature.steps

\* a session just constructed on two different trimmed, non-blank steps
C11_Witness ==
    /\ lastEvent.type = "init"
    /\ Len(feature.steps) = 2
    /\ \A i \in 1..2 : hasInk(feature.steps[i]) /\ isTrimmed(feature.steps[i])
    /\ feature.steps[1] # feature.steps[2]
    /\ currentSteps = feature.steps

\* t is s without its leading and trailing whitespace
isTrimOf(t, s) ==
    \E a \in 1..(Len(s) + 1), b \in 0..Len(s) :
        /\ t = SubSeq(s, a, b)
        /\ \A i \in 1..(a - 1) : IsWhitespace(s[i])
        /\ \A i \in (b + 1)..Len(s) : IsWhitespace(s[i])
        /\ isTrimmed(t)

\* n holds the trimmed values of the non-blank entries of the step list s, in
\* their order
isNormalizationOf(n, s) ==
    LET kept == {i \in 1..Len(s) : hasInk(s[i].value)}
    IN  /\ Len(n) = Cardinality(kept)
        /\ \A i \in kept :
              isTrimOf(n[Cardinality({k \in kept : k <= i})], s[i].value)

\* C12: the mutation's argument is built from the buffer as it is when the
\* submission starts: the snapshot's id, the trimmed category, name and
\* description, the trimmed non-blank step values in their order, and the
\* base-10 integer parse of the priority text.
C12_PayloadFromBuffer ==
    lastEvent.type = "submit" =>
        LET arg == lastEvent.args[1]
        IN  /\ DOMAIN arg = {"featureId", "update"}
            /\ DOMAIN arg.update =
                  {"category", "name", "description", "steps", "priority"}
            /\ arg.featureId = feature.id
            /\ isTrimOf(arg.update.category, category)
            /\ isTrimOf(arg.update.name, name)
            /\ isTrimOf(arg.update.description, description)
            /\ isNormalizationOf(arg.update.steps, steps)
            /\ arg.update.priority = parseInt(priority)

\* a submission whose category was typed with trailing whitespace and whose
\* step list holds a blank row next to a filled one
C12_Witness ==
    /\ lastEvent.type = "submit"
    /\ lastEvent.args[1].update.category # category
    /\ Len(lastEvent.args[1].update.steps) >= 1
    /\ Len(lastEvent.args[1].update.steps) < Len(steps)
    /\ ~lastEvent.args[1].update.priority.nan

\* C13: isValid is true exactly when category, name and description each hold
\* a character that is not whitespace, whatever the priority text and the
\* steps.
C13_IsValidIffAllNonBlank ==
    isValid <=> (hasInk(category) /\ hasInk(name) /\ hasInk(description))

\* the description is whitespace only, the other two texts are populated and
\* the priority text is not the original's
C13_Witness ==
    /\ ~isValid
    /\ hasInk(category)
    /\ hasInk(name)
    /\ Len(description) > 0
    /\ ~hasInk(description)
    /\ priority # String(feature.priority)

\* C14: submitting is true exactly while a mutation call is in flight; once
\* the call settles, which it eventually does, Submitting is left: for Done
\* with onSaved called on success, for Error with a message on failure, and
\* after a failure a valid, changed buffer of the open session can be
\* submitted again.
C14_SubmittingLeft ==
    /\ [](isPending <=> inFlight > 0)
    /\ (isPending ~> ~isPending)
    /\ [][isPending /\ ~isPending' =>
            \/ succeeded' > succeeded /\ onSavedCalls' = onSavedCalls + 1
            \/ failureStep /\ Len(error') = 1 /\ succeeded' = succeeded]_vars
    /\ [](lastEvent.type = "mutationFails" /\ sessionOpen /\ isValid /\ hasChanges
            => ~isPending /\ ENABLED Submit)

\* the mutation has failed and left a valid, changed buffer in an open session
C14_Witness ==
    /\ lastEvent.type = "mutationFails"
    /\ sessionOpen
    /\ isValid /\ hasChanges
    /\ ~isPending
    /\ Len(error) = 1

\* C15: dismissing an error empties errorMessage and leaves the session idle,
\* with category, name, description, priority text, step entries and the id
\* counter as they were.
C15_DismissClearsOnlyError ==
    [][ DismissError =>
          /\ Len(error) > 0
          /\ error' = <<>>
          /\ ~isPending'
          /\ buffer' = buffer
          /\ stepCounter' = stepCounter
          /\ inFlight' = inFlight
          /\ onSavedCalls' = onSavedCalls
          /\ onCloseCalls' = onCloseCalls ]_vars

\* an error was dismissed over a valid, changed buffer with several step rows
C15_Witness ==
    /\ lastEvent.type = "dismissError"
    /\ error = <<>>
    /\ ~isPending
    /\ isValid /\ hasChanges
    /\ Len(steps) > 1

\* C16: handleStepChange(id, value) changes only the value of the entry with
\* that id: the length, the sequence of ids and the other entries' values stay,
\* and with no entry of that id the list is unchanged.
C16_UpdateTouchesOnlyTarget ==
    [][ \A id \in AnyStepIds, v \in WideStepInputs :
          StepChangeById(id, v) =>
            /\ Len(steps') = Len(steps)
            /\ \A i \in 1..Len(steps) :
                 /\ steps'[i].id = steps[i].id
                 /\ steps[i].id # id => steps'[i].value = steps[i].value
                 /\ steps[i].id = id => steps'[i].value = v
            /\ id \notin idsOf(steps) => steps' = steps ]_vars

\* an original step's value was changed, another was left as loaded, and an
\* update with an id no row has came last
C16_Witness ==
    /\ lastEvent.type = "stepChangeUnknownId"
    /\ Len(steps) >= 2
    /\ Len(feature.steps) >= 2
    /\ steps[1].id = StepId(0) /\ steps[1].value # feature.steps[1]
    /\ steps[2].id = StepId(1) /\ steps[2].value = feature.steps[2]

\* C17: handleRemoveStep(id) on a list longer than one removes exactly the
\* entry with that id and keeps the others with ids, values and order; with no
\* entry of that id the list is unchanged.
C17_RemoveTakesOnlyTarget ==
    [][ \A id \in AnyStepIds :
          RemoveStepById(id) =>
            /\ Len(steps) > 1
            /\ id \notin idsOf(steps) => steps' = steps
            /\ id \in idsOf(steps) =>
                 \E k \in 1..Len(steps) :
                   /\ steps[k].id = id
                   /\ steps' = SubSeq(steps, 1, k - 1) \o SubSeq(steps, k + 1, Len(steps)) ]_vars

\* the first of three rows was removed and the two behind it moved up
C17_Witness ==
    /\ lastEvent.type = "removeStep"
    /\ Len(feature.steps) = 2
    /\ Len(steps) = 2
    /\ steps[1].id = StepId(1)
    /\ steps[1].value = feature.steps[2]

\* a step that types only blanks into a row that held only blanks
blankStepChange ==
    \E id \in AnyStepIds, v \in WideStepInputs :
       /\ ~hasInk(v)
       /\ id \in idsOf(steps)
       /\ \A i \in 1..Len(steps) : steps[i].id = id => ~hasInk(steps[i].value)
       /\ StepChangeById(id, v)

\* C18: blank step entries are invisible to change detection and the payload:
\* adding a step entry, or leaving it empty or whitespace-only, changes neither
\* the normalized steps nor hasChanges, nor whether submission is enabled.
C18_BlankStepsInvisible ==
    [][ (AddStep \/ blankStepChange) =>
          /\ currentSteps' = currentSteps
          /\ filteredSteps' = filteredSteps
          /\ hasChanges' = hasChanges
          /\ submitDisabled' = submitDisabled ]_vars

\* a row was added behind the loaded steps and filled with a blank, and the
\* form still reports no change
C18_Witness ==
    /\ Len(feature.steps) >= 1
    /\ Len(steps) = Len(feature.steps) + 1
    /\ steps[Len(steps)].value = <<" ">>
    /\ ~hasChanges
    /\ submitDisabled

\* the category, name and description texts hold more than whitespace
scalarsNonBlank == hasInk(category) /\ hasInk(name) /\ hasInk(description)

C20_EditsWhilePendingKept ==
    /\ [](sessionOpen /\ isPending =>
            /\ \A v \in CategoryInputs : ENABLED SetCategory(v)
            /\ \A v \in NameInputs : ENABLED SetName(v)
            /\ \A v \in DescriptionInputs : ENABLED SetDescription(v)
            /\ \A v \in PriorityInputs : ENABLED SetPriority(v)
            /\ stepCounter < MaxStepCounter => ENABLED AddStep
            /\ \A i \in 1..Len(steps) :
                 /\ removeButtonRendered => ENABLED RemoveStep(i)
                 /\ \A v \in StepInputs : ENABLED StepChange(i, v))
    /\ [][isPending =>
            /\ \A v \in CategoryInputs : SetCategory(v) =>
                 buffer' = <<v, name, description, priority, steps>>
            /\ \A v \in NameInputs : SetName(v) =>
                 buffer' = <<category, v, description, priority, steps>>
            /\ \A v \in DescriptionInputs : SetDescription(v) =>
                 buffer' = <<category, name, v, priority, steps>>
            /\ \A v \in PriorityInputs : SetPriority(v) =>
                 buffer' = <<category, name, description, v, steps>>
            /\ AddStep =>
                 /\ Len(steps') = Len(steps) + 1
                 /\ SubSeq(steps', 1, Len(steps)) = steps
                 /\ steps'[Len(steps')].value = <<>>
            /\ \A i \in 1..Len(steps) :
                 /\ RemoveStep(i) =>
                      steps' = SubSeq(steps, 1, i - 1) \o SubSeq(steps, i + 1, Len(steps))
                 /\ \A v \in StepInputs : StepChange(i, v) =>
                      steps' = [steps EXCEPT ![i].value = v]
            /\ lastEvent'.type = "edit" =>
                 /\ isPending' /\ inFlight' = inFlight
                 /\ error' = error
                 /\ onSavedCalls' = onSavedCalls /\ onCloseCalls' = onCloseCalls]_vars
    /\ [][failureStep => buffer' = buffer]_vars

\* a mutation failed on a session whose name was blanked after the submission:
\* the submit gate needs a non-blank name, so the edit came while the mutation
\* was pending, and it is still there
C20_Witness ==
    /\ lastEvent.type = "mutationFails"
    /\ Len(error) = 1
    /\ ~isPending /\ inFlight = 0
    /\ ~isValid
    /\ ~hasInk(name)
    /\ Len(steps) > Len(initialSteps(feature))

====
